---- MODULE Spec2Model ----
(***************************************************************************)
(* HENDRICS interactive phaseogram (src/hendrics/phaseogram.py) and the    *)
(* profile-fitting helpers of src/hendrics/fold.py.                        *)
(*                                                                         *)
(* Numbers.  Python floats are modelled as exact fixed-point numbers: the  *)
(* integer n stands for n / Res.  Res is chosen so that every halving,     *)
(* quartering and power-of-ten scaling the handlers perform within the     *)
(* bounds below is exact.  Phases of fold.py use the grid 1 / PhUnit.      *)
(*                                                                         *)
(* External routines.  stingray's phaseogram(), numpy's sum and sin and    *)
(* the Z^2 statistic are not code of this repository: the value such a     *)
(* routine returns is represented by the record of the arguments the       *)
(* repository's code passes to it.  matplotlib's Slider is modelled by the *)
(* fields the repository reads and writes (val, valmin, valmax, valinit).  *)
(***************************************************************************)
EXTENDS Integers, Sequences, FiniteSets, TLC

\* ------------------------------------------------------------- bounds
\* Number of GUI callbacks (slider drags and button clicks) in a session.
MaxOps == 3
\* Fold.py inputs: amplitudes in -MaxAmp..MaxAmp, phases within MaxTurns
\* turns of zero, on a grid of 2 * HalfSteps points per turn.
MaxAmp == 2
MaxTurns == 3
HalfSteps == 2

\* ------------------------------------------------------------- numbers
Res == (2 ^ 12) * (5 ^ 3)
PhUnit == 2 * HalfSteps

None == <<>>
Some(x) == <<x>>
Get(o) == o[1]

Max2(a, b) == IF a >= b THEN a ELSE b
Min2(a, b) == IF a <= b THEN a ELSE b

\* assign_value_if_none(value, default) of stingray.utils
assign_value_if_none(value, default) == IF value = None THEN default ELSE value

\* floor(log10(a / b)) for a >= b > 0
RECURSIVE Log10Floor(_, _)
Log10Floor(a, b) == IF a < 10 * b THEN 0 ELSE 1 + Log10Floor(a, 10 * b)

\* np.int(np.log10(num / den)): the decimal logarithm truncated toward zero.
OrderOfMag(num, den) ==
    IF num >= den THEN Log10Floor(num, den) ELSE 0 - Log10Floor(den, num)

\* a / b on the fixed-point grid, for a >= 0 and b > 0 on the grid.
FixDiv(a, b) == (a \div b) * Res + ((a % b) * Res) \div b

\* x * 10 ** k on the fixed-point grid (k may be negative).
Scale10(x, k) == IF k >= 0 THEN x * (10 ^ k) ELSE x \div (10 ^ (0 - k))

\* ------------------------------------------------------------- inputs
\* Observation lengths tobs = tseg * nt, in seconds.
TObsSet == {1, 10}
\* First event time (seconds); the last one is EvStart + tobs.
EvStart == 100
ev_times(tobs) == <<EvStart * Res, (EvStart + tobs) * Res>>
\* Folding frequency, Hz, and its derivatives handed to the constructor.
FreqSet == {1 * Res}
FdotSet == {0}
FddotSet == {0}
\* pepoch argument: None, or an epoch in seconds.
PepochSet == {None, Some((EvStart - 2) * Res)}
\* norm argument of the phaseogram classes.
NormSet == {"None", "to1", "other"}
KnownNorms == {"to1", "mediansub", "meansub"}
\* Reference MJD.
MjdRef == 55000
\* Orbital mode arguments.
BinaryTObsSet == {10}
OrbitalPeriodSet == {None, Some(20 * Res)}
AsiniSet == {0, 2 * Res}
T0Set == {None, Some((EvStart + 10) * Res)}

\* ------------------------------------------------------------- state
VARIABLES
    mode,                 \* "spin": InteractivePhaseogram, "binary": BinaryPhaseogram,
                          \* "off": no phaseogram window (fold.py specifications)
    clips,                \* Slider.__init__ clips valinit into [valmin, valmax]
                          \* (matplotlib >= 2.2) or keeps it as given (older)
    tobs,                 \* tseg * nt
    norm,                 \* self.norm
    freq, fdot, fddot,    \* committed spin ephemeris
    pepoch,               \* self.pepoch
    orbital_period,       \* self.orbital_period (None or Some)
    asini,                \* self.asini
    t0,                   \* self.t0 (None or Some)
    order_of_mag,         \* <<df_order_of_mag, dfdot_order_of_mag, dfddot_order_of_mag>>
    sliders,              \* self.sliders, a sequence of three slider records
    unnorm_phaseogr,      \* self.unnorm_phaseogr
    phaseogr,             \* self.phaseogr
    pcolor,               \* array shown by self.pcolor
    lines,                \* x data of the overlay delay lines
    profile,              \* y data of self.profile
    proftext,             \* text of self.proftext
    timing_model_string,  \* self.timing_model_string
    toa_call,             \* arguments of the last get_TOAs_from_events call
    par_file,             \* contents of the last written .par file
    last,                 \* history: the callback that ran last
    prev,                 \* history: the callback that ran before it
    nops,                 \* history: number of callbacks so far
    freq0,                \* history: the frequency handed to the constructor
    given,                \* history: pepoch, orbital_period, t0 as handed to the constructor
    committed,            \* history: sum of the frequency deltas read by recalculate()
    warnings,             \* the messages given to warnings.warn so far
    pars,                 \* fold.py: input (amplitude, phase) pair
    adjusted,             \* fold.py: result of adjust_amp_phase
    pc,                   \* fold.py: position of the computation
    fit_in,               \* fit_profile_with_sinusoids: profile, profile_err, baseline
    guess_pars,           \* guess_pars
    fit_iter,             \* number of phase seeds tried so far
    starts,               \* history: the initial guesses handed to leastsq
    cands,                \* history: (fit_pars, success, chisq) of each seed
    chisq_save,           \* chisq_save
    fit_pars_save,        \* fit_pars_save (None: still the guess_pars list itself)
    success_save,         \* success_save
    fit_ret,              \* the returned triple (None before the return)
    fpc,                  \* position in fit_profile_with_sinusoids
    run_in,               \* run_folding: its arguments and the loaded events
    run_out,              \* run_folding: profile, smoothing window, 2D histogram
    rpc                   \* position in run_folding

guiVars == <<mode, clips, tobs, norm, freq, fdot, fddot, pepoch, orbital_period,
             asini, t0, order_of_mag, sliders, unnorm_phaseogr, phaseogr, pcolor,
             lines, profile, proftext, timing_model_string, toa_call, par_file,
             last, prev, nops, freq0, given, committed, warnings>>
fitVars == <<fit_in, guess_pars, fit_iter, starts, cands, chisq_save,
             fit_pars_save, success_save, fit_ret, fpc>>
runVars == <<run_in, run_out, rpc>>
foldVars == <<pars, adjusted, pc, fitVars, runVars>>
vars == <<guiVars, foldVars>>

\* ------------------------------------------------------------- sliders
\* Slider._value_in_bounds of matplotlib.widgets
value_in_bounds(val, valmin, valmax) ==
    IF val <= valmin THEN valmin
    ELSE IF val >= valmax THEN valmax
    ELSE val

\* SliderOnSteroids.__init__: the hard bounds are taken from the keyword
\* arguments (None when absent), everything else goes to Slider.__init__.
SliderOnSteroids(valmin, valmax, valinit, hardvalmin, hardvalmax, clip) ==
    LET v == IF clip THEN value_in_bounds(valinit, valmin, valmax) ELSE valinit
    IN  [val |-> v, valinit |-> v, valmin |-> valmin, valmax |-> valmax,
         hardvalmin |-> hardvalmin, hardvalmax |-> hardvalmax]

\* Mutant of slider_reset: also re-centres the range on valinit.
slider_reset_recentring(s) ==
    [s EXCEPT !.val = s.valinit,
              !.valmin = s.valinit - (s.valmax - s.valmin) \div 2,
              !.valmax = s.valinit + (s.valmax - s.valmin) \div 2]

\* Slider.reset: set_val(valinit) unless the value is already valinit.
slider_reset(s) == [s EXCEPT !.val = s.valinit]

\* ------------------------------------------------------------- phaseograms
\* Event times minus a delay: delay is None (no delay) or the triple
\* <<asini, t0, orbital_period>> of the orbital delay
\* asini * sin(2 pi (t - t0) / orbital_period).
\* A delay of amplitude asini = 0 over a non-zero period is no delay.
corrected_times(ev, delay) ==
    [ev |-> ev,
     delay |-> IF delay # None /\ delay[1] = 0 /\ delay[3] # 0 THEN None ELSE delay]

\* times[0] of corrected times: the first event time, minus its delay if any.
\* The delay is zero where t - t0 is a multiple of half the period.
FirstTime(times) ==
    IF times.delay = None THEN <<times.ev[1]>>
    ELSE IF times.delay[3] # 0
            /\ (2 * (times.ev[1] - times.delay[2])) % times.delay[3] = 0
         THEN <<times.ev[1]>>
    ELSE <<times.ev[1], times.delay>>

\* stingray.pulse.search.phaseogram: the 2D histogram of the phases of
\* `times` folded at (f, fd, fdd) about epoch pep; a pep of None stands for
\* times[0].
phaseogram(times, f, fd, fdd, pep) ==
    [times |-> times, f |-> f, fdot |-> fd, fddot |-> fdd,
     pepoch |-> IF pep = None THEN FirstTime(times) ELSE pep]

\* Mutant of normalized_phaseogram: a norm that is not known is applied as to1.
normalized_phaseogram_unknown_as_to1(nrm, times, f, fd, fdd, pep) ==
    [phas |-> phaseogram(times, f, fd, fdd, pep),
     applied |-> IF nrm = "None" THEN "None"
                 ELSE IF nrm \in KnownNorms THEN nrm ELSE "to1"]

\* The warning of the else branch of normalized_phaseogram (lines 73-75).
normalized_phaseogram_warns(nrm) ==
    IF nrm = "None" \/ nrm \in KnownNorms THEN {} ELSE {nrm}

\* normalized_phaseogram: the histogram and the normalisation applied to it.
\* norm None and an unknown norm both leave the histogram as it is.
normalized_phaseogram(nrm, times, f, fd, fdd, pep) ==
    [phas |-> phaseogram(times, f, fd, fdd, pep),
     applied |-> IF nrm \in KnownNorms THEN nrm ELSE "None"]

\* np.sum(np.nan_to_num(phaseogram), axis=1): the profile summed over time.
SumOverTime(ph) == [sum_over_time |-> ph]

\* get_z2_label(phas, prof): the label computed from a profile.
get_z2_label(prof) == [z2_of |-> prof]

\* ------------------------------------------------------------- timing model
\* get_timing_model_string: the lines of the parameter file, each a key and
\* the numbers formatted into it.  PEPOCH is pepoch / 86400 + mjdref, PB is
\* orbital_period / 86400, T0 is t0 / 86400 + mjdref; object and position
\* are None.
get_timing_model_string(f, fd, fdd, pep, period, a, tzero) ==
    <<  <<"PEPOCH", <<pep, 86400, MjdRef>> >>,
        <<"PSRJ", None>>,
        <<"F0", <<f>> >>,
        <<"F1", <<fd>> >>,
        <<"F2", <<fdd>> >> >>
    \o (IF period # None
        THEN << <<"BINARY BT", None>>,
                <<"PB", <<Get(period), 86400>> >>,
                <<"A1", <<a>> >>,
                <<"T0", <<Get(tzero), 86400, MjdRef>> >>,
                <<"T0(MET)", <<Get(tzero)>> >>,
                <<"PB(s)", <<Get(period)>> >> >>
        ELSE << >>)
    \o << <<"PEPOCH(MET)", <<pep>> >> >>

\* The numbers on the line of a parameter file that starts with `key`.
ParValue(file, key) ==
    LET i == CHOOSE j \in 1..Len(file) : file[j][1] = key IN file[i][2]

\* ------------------------------------------------------------- overlay lines
ZeroLines == [delay |-> FALSE, new |-> None, old |-> None]

\* Mutant of _read_sliders: the slider values without their orders of magnitude.
_read_sliders_unscaled(sl, oom) == << sl[1].val, sl[2].val, sl[3].val >>

\* InteractivePhaseogram._read_sliders: <<freq, fdot, fddot>> deltas.
_read_sliders(sl, oom) ==
    << Scale10(sl[1].val, oom[1]),
       Scale10(sl[2].val, oom[2]),
       Scale10(sl[3].val, oom[3]) >>

\* BinaryPhaseogram._read_sliders: <<orbital_period, asini, t0>>.
Binary_read_sliders(sl) == << sl[1].val, sl[2].val, sl[3].val >>

\* InteractivePhaseogram._line_delay_fun: the phase drift of the slider
\* deltas about pepoch.
_line_delay_fun(sl, oom, pep) ==
    [delay |-> TRUE, new |-> _read_sliders(sl, oom), old |-> <<pep>>]

\* BinaryPhaseogram._line_delay_fun: the orbital delay of the slider values
\* minus that of the committed orbit, times the frequency.
Binary_line_delay_fun(sl, period, a, tzero, f) ==
    [delay |-> TRUE, new |-> Binary_read_sliders(sl),
     old |-> <<a, Get(tzero), Get(period), f>>]

\* BasePhaseogram._set_lines
_set_lines(apply_delay, sl) ==
    IF ~apply_delay THEN ZeroLines
    ELSE IF mode = "spin" THEN _line_delay_fun(sl, order_of_mag, pepoch)
    ELSE Binary_line_delay_fun(sl, orbital_period, asini, t0, freq)

\* ------------------------------------------------------------- construction
\* A slider range start / 10 ** order on the fixed-point grid, start = num / den.
SliderDelta(num, den) == Scale10((num * Res) \div den, 0 - OrderOfMag(num, den))

\* InteractivePhaseogram._construct_widgets: the orders of magnitude of the
\* three slider units, from tobs.
spin_orders_of_mag(tb) ==
    << OrderOfMag(4, tb), OrderOfMag(8, tb * tb), OrderOfMag(16, tb * tb * tb) >>

\* InteractivePhaseogram._construct_widgets: sfreq, sfdot, sfddot.
_construct_widgets(tb, clip) ==
    << SliderOnSteroids(0 - SliderDelta(4, tb), SliderDelta(4, tb), 0,
                        Some(0), None, clip),
       SliderOnSteroids(0 - SliderDelta(8, tb * tb), SliderDelta(8, tb * tb), 0,
                        None, None, clip),
       SliderOnSteroids(0 - SliderDelta(16, tb * tb * tb),
                        SliderDelta(16, tb * tb * tb), 0,
                        None, None, clip) >>

\* BinaryPhaseogram._construct_widgets: speriod, sasini, st0.
Binary_construct_widgets(tb, clip, f, period, a, tzero) ==
    LET delta_period == tb * Res * 5
        delta_asini  == FixDiv(5 * Res, f)
        delta_t0     == delta_period
    IN  << SliderOnSteroids(Max2(0, period - delta_period), period + delta_period,
                            period, Some(0), None, clip),
           SliderOnSteroids(0, a + delta_asini, a, Some(0), None, clip),
           SliderOnSteroids(tzero - delta_t0, tzero + delta_t0, tzero,
                            Some(0), None, clip) >>

\* Mutant of Binary_delay_defaults: an unset t0 becomes the first event time.
Binary_delay_defaults_from_first_event(period_arg, t0_arg, pep, ev) ==
    << IF period_arg = None THEN Some(ev[Len(ev)] - ev[1]) ELSE period_arg,
       IF t0_arg = None THEN Some(ev[1]) ELSE t0_arg >>

\* BinaryPhaseogram._delay_fun: the defaults it gives t0 and orbital_period
\* the first time it runs, <<orbital_period, t0>>.
Binary_delay_defaults(period_arg, t0_arg, pep, ev) ==
    << IF period_arg = None THEN Some(ev[Len(ev)] - ev[1]) ELSE period_arg,
       IF t0_arg = None THEN Some(pep) ELSE t0_arg >>

\* fit_profile_with_sinusoids is not running.
FitOff ==
    /\ fit_in = None /\ guess_pars = << >> /\ fit_iter = 0
    /\ starts = << >> /\ cands = << >>
    /\ chisq_save = None /\ fit_pars_save = None /\ success_save = 0
    /\ fit_ret = None /\ fpc = "off"

\* run_folding is not running.
RunOff == run_in = None /\ run_out = None /\ rpc = "off"

\* The history and the mode of a freshly built window.
InitHistory(m, clip, tb, nrm, f) ==
    /\ mode = m /\ clips = clip /\ tobs = tb /\ norm = nrm
    /\ last = "init" /\ prev = "init" /\ nops = 0
    /\ freq0 = f /\ committed = 0
    /\ timing_model_string = << >>
    /\ toa_call = [called |-> FALSE, freqs |-> None, pepoch |-> None]
    /\ par_file = << >>
    /\ lines = ZeroLines
    /\ pars = <<0, 0>> /\ adjusted = <<0, 0>> /\ pc = "idle"
    /\ FitOff /\ RunOff
    /\ warnings = normalized_phaseogram_warns("None") \cup
                  normalized_phaseogram_warns(nrm)

\* BasePhaseogram.__init__ for an InteractivePhaseogram.
InitSpin ==
    \E tb \in TObsSet, f \in FreqSet, fd \in FdotSet, fdd \in FddotSet,
       pep \in PepochSet, nrm \in NormSet, clip \in BOOLEAN :
        LET ev == ev_times(tb)
            times == corrected_times(ev, None)
        IN  /\ InitHistory("spin", clip, tb, nrm, f)
            /\ given = [pepoch |-> pep, orbital_period |-> None, t0 |-> None]
            /\ freq = f /\ fdot = fd /\ fddot = fdd
            /\ pepoch = Get(assign_value_if_none(pep, Some(ev[1])))
            /\ orbital_period = None /\ asini = 0 /\ t0 = None
            /\ unnorm_phaseogr = normalized_phaseogram("None", times, f, fd, fdd, pep)
            /\ phaseogr = normalized_phaseogram(nrm, times, f, fd, fdd, pep)
            /\ pcolor = phaseogr
            /\ order_of_mag = spin_orders_of_mag(tb)
            /\ sliders = _construct_widgets(tb, clip)
            /\ profile = SumOverTime(unnorm_phaseogr)
            /\ proftext = get_z2_label(profile)

\* BinaryPhaseogram.__init__ followed by BasePhaseogram.__init__.
InitBinary ==
    \E tb \in BinaryTObsSet, f \in FreqSet, fd \in FdotSet, fdd \in FddotSet,
       pep \in PepochSet, nrm \in NormSet, clip \in BOOLEAN,
       period_arg \in OrbitalPeriodSet, a \in AsiniSet, t0_arg \in T0Set :
        LET ev == ev_times(tb)
            p  == Get(assign_value_if_none(pep, Some(ev[1])))
            d  == Binary_delay_defaults(period_arg, t0_arg, p, ev)
            times == corrected_times(ev, <<a, Get(d[2]), Get(d[1])>>)
        IN  /\ InitHistory("binary", clip, tb, nrm, f)
            /\ given = [pepoch |-> pep, orbital_period |-> period_arg,
                        t0 |-> t0_arg]
            /\ freq = f /\ fdot = fd /\ fddot = fdd
            /\ pepoch = p
            /\ orbital_period = d[1] /\ asini = a /\ t0 = d[2]
            /\ unnorm_phaseogr = normalized_phaseogram("None", times, f, fd, fdd, pep)
            /\ phaseogr = normalized_phaseogram(nrm, times, f, fd, fdd, pep)
            /\ pcolor = phaseogr
            /\ order_of_mag = <<0, 0, 0>>
            /\ sliders = Binary_construct_widgets(tb, clip, f, Get(d[1]), a, Get(d[2]))
            /\ profile = SumOverTime(unnorm_phaseogr)
            /\ proftext = get_z2_label(profile)

Init == InitSpin \/ InitBinary

\* ------------------------------------------------------------- callbacks
Sliders == 1..3

\* One more callback has run.
Step(name) ==
    /\ nops < MaxOps
    /\ last' = name /\ prev' = last /\ nops' = nops + 1
    /\ UNCHANGED <<mode, clips, tobs, norm, order_of_mag, freq0, given, foldVars>>

\* Mutant of update: also refolds the displayed phaseogram at the slider values.
update_refolding(sl) ==
    /\ lines' = _set_lines(TRUE, sl)
    /\ phaseogr' = normalized_phaseogram(norm, phaseogr.phas.times,
                                         freq - sl[1].val, fdot, fddot, Some(pepoch))
    /\ UNCHANGED <<freq, fdot, fddot, pepoch, orbital_period, asini, t0,
                   unnorm_phaseogr, pcolor, profile, proftext,
                   timing_model_string, toa_call, par_file, warnings>>

\* update(val): redraw the overlay lines from the slider values.
update(sl) ==
    /\ lines' = _set_lines(TRUE, sl)
    /\ UNCHANGED <<freq, fdot, fddot, pepoch, orbital_period, asini, t0,
                   unnorm_phaseogr, phaseogr, pcolor, profile, proftext,
                   timing_model_string, toa_call, par_file, warnings>>

\* Positions a drag can release the slider at: the two ends and the middle.
XData(s) == {s.valmin, s.valmax, (s.valmin + s.valmax) \div 2}

\* The user drags slider i to x: Slider._update clips x into the range, sets
\* the value if it differs from the current one and calls update().
Drag(i, x) ==
    LET v == value_in_bounds(x, sliders[i].valmin, sliders[i].valmax)
    IN  /\ mode \in {"spin", "binary"}
        /\ v # sliders[i].val
        /\ sliders' = [sliders EXCEPT ![i].val = v]
        /\ update(sliders')
        /\ UNCHANGED committed
        /\ Step("update")

\* BasePhaseogram.reset on sliders sl and stored phaseograms ph, un.
reset(sl, ph, un) ==
    /\ sliders' = [i \in Sliders |-> slider_reset(sl[i])]
    /\ pcolor' = ph
    /\ lines' = _set_lines(FALSE, sliders')
    /\ profile' = SumOverTime(un)
    /\ proftext' = get_z2_label(SumOverTime(un))

\* The Reset button.
ResetClicked ==
    /\ mode \in {"spin", "binary"}
    /\ reset(sliders, phaseogr, unnorm_phaseogr)
    /\ UNCHANGED <<freq, fdot, fddot, pepoch, orbital_period, asini, t0,
                   unnorm_phaseogr, phaseogr, timing_model_string, toa_call,
                   par_file, committed, warnings>>
    /\ Step("reset")

\* Mutant of zoom_in_slider: the new range is not cut at the hard bounds.
zoom_in_slider_unclipped(s, clip) ==
    LET valinit  == s.val
        valrange == s.valmax - s.valmin
    IN  SliderOnSteroids(valinit - valrange \div 4, valinit + valrange \div 4,
                         valinit, s.hardvalmin, s.hardvalmax, clip)

\* BasePhaseogram.zoom_in on one slider.
zoom_in_slider(s, clip) ==
    LET valinit  == s.val
        valrange == s.valmax - s.valmin
        valmin0  == valinit - valrange \div 4
        valmin   == IF s.hardvalmin # None
                    THEN Max2(Get(s.hardvalmin), valmin0) ELSE valmin0
        valmax0  == valinit + valrange \div 4
        valmax   == IF s.hardvalmax # None
                    THEN Min2(Get(s.hardvalmax), valmax0) ELSE valmax0
    IN  SliderOnSteroids(valmin, valmax, valinit, s.hardvalmin, s.hardvalmax, clip)

\* BasePhaseogram.zoom_out on one slider.
zoom_out_slider(s, clip) ==
    LET valinit  == s.val
        valrange == s.valmax - s.valmin
        valmin0  == valinit - valrange
        valmin   == IF s.hardvalmin # None
                    THEN Max2(Get(s.hardvalmin), valmin0) ELSE valmin0
        valmax0  == valinit + valrange
        valmax   == IF s.hardvalmax # None
                    THEN Min2(Get(s.hardvalmax), valmax0) ELSE valmax0
    IN  SliderOnSteroids(valmin, valmax, valinit, s.hardvalmin, s.hardvalmax, clip)

\* What a zoom button leaves alone.
ZoomFrame ==
    UNCHANGED <<freq, fdot, fddot, pepoch, orbital_period, asini, t0,
                unnorm_phaseogr, phaseogr, pcolor, lines, profile, proftext,
                timing_model_string, toa_call, par_file, committed, warnings>>

\* The +Zoom button.
zoom_in ==
    /\ mode \in {"spin", "binary"}
    /\ sliders' = [i \in Sliders |-> zoom_in_slider(sliders[i], clips)]
    /\ ZoomFrame
    /\ Step("zoom_in")

\* The -Zoom button.
zoom_out ==
    /\ mode \in {"spin", "binary"}
    /\ sliders' = [i \in Sliders |-> zoom_out_slider(sliders[i], clips)]
    /\ ZoomFrame
    /\ Step("zoom_out")

\* InteractivePhaseogram.recalculate (the Recalculate button, spin mode).
recalculate ==
    LET d     == _read_sliders(sliders, order_of_mag)
        times == corrected_times(ev_times(tobs), None)
    IN  /\ mode = "spin"
        /\ fddot' = fddot - d[3]
        /\ fdot' = fdot - d[2]
        /\ freq' = freq - d[1]
        /\ unnorm_phaseogr' =
               normalized_phaseogram("None", times, freq', fdot', fddot', Some(pepoch))
        /\ phaseogr' =
               normalized_phaseogram(norm, times, freq', fdot', fddot', Some(pepoch))
        /\ reset(sliders, phaseogr', unnorm_phaseogr')
        /\ timing_model_string' =
               get_timing_model_string(freq', fdot', fddot', pepoch,
                                       orbital_period, asini, t0)
        /\ committed' = committed + d[1]
        /\ warnings' = warnings \cup normalized_phaseogram_warns("None") \cup
                                normalized_phaseogram_warns(norm)
        /\ UNCHANGED <<pepoch, orbital_period, asini, t0, toa_call, par_file>>
        /\ Step("recalculate")

\* BinaryPhaseogram.recalculate (the Recalculate button, orbital mode).
Binary_recalculate ==
    LET r     == Binary_read_sliders(sliders)
        times == corrected_times(ev_times(tobs), <<r[2], r[3], r[1]>>)
    IN  /\ mode = "binary"
        /\ orbital_period' = Some(r[1])
        /\ asini' = r[2]
        /\ t0' = Some(r[3])
        /\ unnorm_phaseogr' =
               normalized_phaseogram("None", times, freq, fdot, fddot, Some(pepoch))
        /\ phaseogr' =
               normalized_phaseogram(norm, times, freq, fdot, fddot, Some(pepoch))
        /\ lines' = _set_lines(FALSE, sliders)
        /\ pcolor' = phaseogr'
        /\ sliders' = [sliders EXCEPT ![2].valinit = r[2],
                                      ![1].valinit = r[1],
                                      ![3].valinit = r[3],
                                      ![3].valmin = r[3] - r[1],
                                      ![3].valmax = r[3] + r[1]]
        /\ timing_model_string' =
               get_timing_model_string(freq, fdot, fddot, pepoch,
                                       orbital_period', asini', t0')
        /\ UNCHANGED <<freq, fdot, fddot, pepoch, profile, proftext, toa_call,
                       par_file, committed>>
        /\ warnings' = warnings \cup normalized_phaseogram_warns("None") \cup
                                normalized_phaseogram_warns(norm)
        /\ Step("recalculate")

\* InteractivePhaseogram.toa (the TOA button, spin mode).
toa ==
    LET d == _read_sliders(sliders, order_of_mag)
    IN  /\ mode = "spin"
        /\ timing_model_string' =
               get_timing_model_string(freq, fdot, fddot, pepoch,
                                       orbital_period, asini, t0)
        /\ toa_call' = [called |-> TRUE,
                        freqs  |-> <<freq - d[1], fdot - d[2], fddot - d[3]>>,
                        pepoch |-> Some(pepoch)]
        /\ par_file' = timing_model_string'
        /\ UNCHANGED <<freq, fdot, fddot, pepoch, orbital_period, asini, t0,
                       sliders, unnorm_phaseogr, phaseogr, pcolor, lines, profile,
                       proftext, committed, warnings>>
        /\ Step("toa")

\* BasePhaseogram.toa (the TOA button, orbital mode): a warning, no export.
Base_toa ==
    /\ mode = "binary"
    /\ UNCHANGED <<freq, fdot, fddot, pepoch, orbital_period, asini, t0,
                   sliders, unnorm_phaseogr, phaseogr, pcolor, lines, profile,
                   proftext, timing_model_string, toa_call, par_file, committed,
                   warnings>>
    /\ Step("toa")

Next ==
    \/ \E i \in Sliders : \E x \in XData(sliders[i]) : Drag(i, x)
    \/ ResetClicked
    \/ zoom_in
    \/ zoom_out
    \/ recalculate
    \/ Binary_recalculate
    \/ toa
    \/ Base_toa

Spec == Init /\ [][Next]_vars

\* ------------------------------------------------------------- fold.py
\* np.floor and np.ceil on the phase grid.
Floor(x) == (x \div PhUnit) * PhUnit
Ceil(x) == 0 - Floor(0 - x)

\* Mutant of adjust_amp_phase: a negative amplitude shifts the phase but
\* keeps its sign.
adjust_amp_phase_keeping_sign(p) ==
    LET p1 == IF p[1] < 0 THEN p[2] + PhUnit \div 2 ELSE p[2]
        p2 == IF p1 < 0 - PhUnit THEN p1 + Floor(0 - p1) ELSE p1
        p3 == IF p2 > PhUnit THEN p2 - Floor(p2) ELSE p2
    IN  <<p[1], p3 - Ceil(p3)>>

\* Mutant of adjust_amp_phase: the half-turn shift is applied whatever the
\* sign of the amplitude.
adjust_amp_phase_always_shifting(p) ==
    LET a1 == IF p[1] < 0 THEN 0 - p[1] ELSE p[1]
        p1 == p[2] + PhUnit \div 2
        p2 == IF p1 < 0 - PhUnit THEN p1 + Floor(0 - p1) ELSE p1
        p3 == IF p2 > PhUnit THEN p2 - Floor(p2) ELSE p2
    IN  <<a1, p3 - Ceil(p3)>>

\* A term a * cos(2 pi k x + 2 pi turns) of dbl_cos_fit_func as a function of
\* x, `turns` in units of 1/PhUnit turn: two terms of the same harmonic k take
\* the same value at every x exactly when these representatives are equal
\* (a zero amplitude is the zero function; a negative amplitude is the
\* positive one half a turn away; whole turns do not count).
CosTerm(a, turns) ==
    IF a = 0 THEN <<0, 0>>
    ELSE IF a < 0 THEN <<0 - a, (turns + PhUnit \div 2) % PhUnit>>
    ELSE <<a, turns % PhUnit>>

\* first_harm = p[0] * cos(2 pi x + 2 pi p[1])
first_harm(p) == CosTerm(p[1], p[2])
\* second_harm = p[2] * cos(4 pi x + 4 pi p[3])
second_harm(p) == CosTerm(p[1], 2 * p[2])

\* adjust_amp_phase(pars): pars[1] the amplitude, pars[2] the phase.
adjust_amp_phase(p) ==
    LET a1 == IF p[1] < 0 THEN 0 - p[1] ELSE p[1]
        p1 == IF p[1] < 0 THEN p[2] + PhUnit \div 2 ELSE p[2]
        p2 == IF p1 < 0 - PhUnit THEN p1 + Floor(0 - p1) ELSE p1
        p3 == IF p2 > PhUnit THEN p2 - Floor(p2) ELSE p2
        p4 == p3 - Ceil(p3)
    IN  <<a1, p4>>

\* No phaseogram window is open.
GuiOff ==
    /\ mode = "off" /\ clips = FALSE /\ tobs = 0 /\ norm = "None"
    /\ freq = 0 /\ fdot = 0 /\ fddot = 0 /\ pepoch = 0
    /\ orbital_period = None /\ asini = 0 /\ t0 = None
    /\ order_of_mag = <<0, 0, 0>> /\ sliders = << >>
    /\ unnorm_phaseogr = None /\ phaseogr = None /\ pcolor = None
    /\ lines = ZeroLines /\ profile = None /\ proftext = None
    /\ timing_model_string = << >>
    /\ toa_call = [called |-> FALSE, freqs |-> None, pepoch |-> None]
    /\ par_file = << >>
    /\ last = "init" /\ prev = "init" /\ nops = 0 /\ freq0 = 0 /\ committed = 0
    /\ given = None
    /\ warnings = {}

\* The (amplitude, phase) pairs handed to adjust_amp_phase.
ParsSet == (0 - MaxAmp .. MaxAmp) \X (0 - MaxTurns * PhUnit .. MaxTurns * PhUnit)

InitFold ==
    /\ GuiOff
    /\ FitOff /\ RunOff
    /\ pars \in ParsSet
    /\ adjusted = pars
    /\ pc = "start"

\* One call of adjust_amp_phase.
AdjustAmpPhase ==
    /\ pc = "start"
    /\ adjusted' = adjust_amp_phase(pars)
    /\ pc' = "done"
    /\ UNCHANGED <<pars, guiVars, fitVars, runVars>>

NextFold == AdjustAmpPhase

FoldSpec == InitFold /\ [][NextFold]_vars

\* ------------------------------------------- fit_profile_with_sinusoids
\* Floating point values of the chi-square: a finite number, the start value
\* 1e32 of chisq_save (above every finite chi-square here), inf and nan.
Fin(v) == <<"fin", v>>
Inf == <<"inf", 0>>
NaN == <<"nan", 0>>
Sentinel == <<"1e32", 0>>

\* a < b on floats: every comparison with nan is false.
FloatLess(a, b) ==
    IF a[1] = "fin"
    THEN IF b[1] = "fin" THEN a[2] < b[2] ELSE b[1] \in {"1e32", "inf"}
    ELSE a[1] = "1e32" /\ b[1] = "inf"

\* Finite chi-squares are kept in units of 1/ChiRes.
ChiRes == 3 * 4

\* num / dof for dof >= 0 (numpy: x / 0 is inf, 0 / 0 is nan, no exception).
FloatDiv(num, dof) ==
    IF num[1] # "fin" THEN num
    ELSE IF dof = 0 THEN (IF num[2] = 0 THEN NaN ELSE Inf)
    ELSE Fin((num[2] * ChiRes) \div dof)

\* for phase in np.arange(0., 1., 0.1)
NumSeeds == 10
\* Phases of the initial guess are kept in units of 1/GuessUnit.
GuessUnit == 8 * 5
phase_seed(i) == i * (GuessUnit \div NumSeeds)

\* Inputs: len(profile), baseline, whether profile_err has a zero,
\* max(profile) - mean(profile) (even, so that its half is exact),
\* np.mean(profile), the index of the maximum.
ProfileLenSet == {4, 5, 8}
AmpSet == {2}
MeanSet == {3}
ArgmaxSet == {1}
\* What leastsq converges to: its parameters (A1, phi1, A2, phi2), its success
\* flag and the sum of squared residuals the converged model leaves.
FitParsSet == {<<1, 1, 1, 0>>, <<0 - 1, 1, 1, 1>>, <<1, 0, 0 - 1, 1>>}
SuccessSet == {1, 2}
MisfitSet == {0, 1, 2}
FitSet == [pars : FitParsSet, success : SuccessSet, misfit : MisfitSet]
\* Seeds below `basin` converge to the first fit, the others to the second.
BasinSet == {0, 4 * (GuessUnit \div NumSeeds), GuessUnit}

startidx(fi) == IF fi.baseline THEN 1 ELSE 0

\* guess_pars before the loop (lines 105-114).
initial_guess(fi) ==
    (IF fi.baseline THEN <<fi.mean>> ELSE << >>) \o
    <<fi.amp, (fi.argmax * GuessUnit) \div fi.n - GuessUnit \div 4,
      fi.amp \div 2, 0>>

\* optimize.leastsq(std_residuals, guess_pars[:], args=(x, profile)): a
\* function of the guess and the profile.
leastsq(guess, fi) ==
    IF guess[4 + startidx(fi)] < fi.basin THEN fi.fits[1] ELSE fi.fits[2]

\* fit_pars after lines 132-135: both pairs through adjust_amp_phase.
adjusted_fit_pars(fit, fi) ==
    (IF fi.baseline THEN <<fi.mean>> ELSE << >>) \o
    adjust_amp_phase(<<fit.pars[1], fit.pars[2]>>) \o
    adjust_amp_phase(<<fit.pars[3], fit.pars[4]>>)

\* np.sum((profile - model) ** 2 / profile_err ** 2): with a zero error the
\* term of that bin is 0 / 0 = nan when the fit is exact, otherwise x / 0 = inf.
chisq_sum(fit, fi) ==
    IF fi.err_zero
    THEN (IF fit.misfit = 0 THEN NaN ELSE Inf)
    ELSE Fin(fit.misfit)

\* chisq of lines 136-137
reduced_chisq(fit, fi) == FloatDiv(chisq_sum(fit, fi), fi.n - (startidx(fi) + 4))

InitFit ==
    /\ GuiOff /\ RunOff
    /\ pars = <<0, 0>> /\ adjusted = <<0, 0>> /\ pc = "idle"
    /\ \E n \in ProfileLenSet, bl \in BOOLEAN, ez \in BOOLEAN, amp \in AmpSet,
          mn \in MeanSet, k \in ArgmaxSet, b \in BasinSet, f1 \in FitSet,
          f2 \in FitSet :
           fit_in = [n |-> n, baseline |-> bl, err_zero |-> ez, amp |-> amp,
                     mean |-> mn, argmax |-> k, basin |-> b, fits |-> <<f1, f2>>]
    /\ guess_pars = initial_guess(fit_in)
    /\ fit_iter = 0 /\ starts = << >> /\ cands = << >>
    /\ chisq_save = Sentinel
    /\ fit_pars_save = None
    /\ success_save = 0 - 1
    /\ fit_ret = None
    /\ fpc = "loop"

FitFrame == UNCHANGED <<guiVars, pars, adjusted, pc, fit_in, runVars>>

\* One pass of the loop over the phase seeds (lines 123-143).
FitIteration ==
    LET g     == [guess_pars EXCEPT ![4 + startidx(fit_in)] = phase_seed(fit_iter)]
        fit   == leastsq(g, fit_in)
        fp    == adjusted_fit_pars(fit, fit_in)
        chisq == reduced_chisq(fit, fit_in)
    IN  /\ fpc = "loop" /\ fit_iter < NumSeeds
        /\ fit_in.n >= 4 + startidx(fit_in)
        /\ guess_pars' = g
        /\ starts' = Append(starts, g)
        /\ cands' = Append(cands, [pars |-> fp, success |-> fit.success,
                                   chisq |-> chisq])
        /\ IF FloatLess(chisq, chisq_save)
           THEN /\ chisq_save' = chisq
                /\ fit_pars_save' = Some(fp)
                /\ success_save' = fit.success
           ELSE UNCHANGED <<chisq_save, fit_pars_save, success_save>>
        /\ fit_iter' = fit_iter + 1
        /\ UNCHANGED <<fit_ret, fpc>>
        /\ FitFrame

\* leastsq raises TypeError when there are more parameters than bins.
FitRaise ==
    /\ fpc = "loop" /\ fit_iter = 0
    /\ fit_in.n < 4 + startidx(fit_in)
    /\ guess_pars' = [guess_pars EXCEPT ![4 + startidx(fit_in)] = phase_seed(0)]
    /\ fpc' = "raised"
    /\ UNCHANGED <<fit_iter, starts, cands, chisq_save, fit_pars_save,
                   success_save, fit_ret>>
    /\ FitFrame

\* return fit_pars_save, success_save, chisq_save
FitReturn ==
    /\ fpc = "loop" /\ fit_iter = NumSeeds
    /\ fit_ret' = Some([pars    |-> IF fit_pars_save = None THEN guess_pars
                                     ELSE Get(fit_pars_save),
                        success |-> success_save,
                        chisq   |-> chisq_save])
    /\ fpc' = "returned"
    /\ UNCHANGED <<guess_pars, fit_iter, starts, cands, chisq_save,
                   fit_pars_save, success_save>>
    /\ FitFrame

NextFit == FitIteration \/ FitRaise \/ FitReturn

FitSpec == InitFit /\ [][NextFit]_vars

\* ------------------------------------------------------------ run_folding
\* Times are in units of 1/TimeUnit s, frequencies in Hz; a phase is in
\* units of 1/TimeUnit turn.
TimeUnit == 1 + 1

\* _check_odd(n)
_check_odd(n) == (n \div 2) * 2 + 1

\* pulse_phase(times - tref, freq, fdot, fddot, to_1=True) with fdot = fddot = 0
\* and tref = 0: the fractional part of freq * t.
pulse_phase(t, f) == (t * f) % TimeUnit

\* The bin, 1..nbin, of np.histogram(phases, bins=np.linspace(0, 1, nbin + 1)).
phase_bin(ph, nbin) == (ph * nbin) \div TimeUnit + 1

\* Arguments: the event times of the file, its energy column (ev.energy,
\* ev.pi or neither), emin and emax (None: the defaults 0 and 1e32), nbin,
\* smooth_window, norm.  At least one event passes the energy filter.
EventTimes == <<0, 1, 2, 3>>
EnergySet == {0, 1, 5}
ColumnSet == {"energy", "pi", "none"}
EminSet == {None, Some(1)}
EmaxSet == {None, Some(5)}
NbinSet == {1, 4, 5, 16, 60}
SmoothWindowSet == {None, Some(3), Some(4)}
FoldNormSet == {"none", "ratios", "to1", "other"}

\* energy > emin, energy < emax
above_emin(e, emin) == IF emin = None THEN e > 0 ELSE e > Get(emin)
below_emax(e, emax) == IF emax = None THEN TRUE ELSE e < Get(emax)

\* The energy array of lines 167-176.
energy_of(ri) ==
    IF ri.column = "none" THEN [k \in DOMAIN ri.times |-> 1] ELSE ri.energies

\* good = (energy > emin) & (energy < emax): the indices kept.
good(ri) ==
    {k \in DOMAIN ri.times :
        above_emin(energy_of(ri)[k], ri.emin) /\ below_emax(energy_of(ri)[k], ri.emax)}

\* profile, _ = np.histogram(phases, bins=binx)
folded_profile(ri) ==
    [i \in 1..ri.nbin |->
        Cardinality({k \in good(ri) :
                        phase_bin(pulse_phase(ri.times[k], ri.freq), ri.nbin) = i})]

\* The window handed to savgol_filter (lines 190-195).
window_length(ri) ==
    IF ri.smooth_window = None
    THEN _check_odd(Min2(ri.nbin, Max2(ri.nbin \div 10, 5)))
    ELSE Get(ri.smooth_window)

\* savgol_filter(profile, window_length, polyorder=2, mode='wrap') raises
\* ValueError for an even window and for polyorder >= window_length.
savgol_rejects(w) == w % 2 = 0 \/ w <= 2

\* hist2d after lines 209-222: None without an energy column.
normalized_hist2d(ri) ==
    IF ri.column = "none" THEN None
    ELSE IF ri.norm = "ratios"
         THEN Some([view |-> "ratios", file_label |-> "_ratios"])
         ELSE Some([view |-> "to1", file_label |-> "_to1"])

InitRun ==
    /\ GuiOff /\ FitOff
    /\ pars = <<0, 0>> /\ adjusted = <<0, 0>> /\ pc = "idle"
    /\ \E col \in ColumnSet, en \in [DOMAIN EventTimes -> EnergySet],
          emin \in EminSet, emax \in EmaxSet, nbin \in NbinSet,
          sw \in SmoothWindowSet, nrm \in FoldNormSet :
           /\ col = "none" => en = [k \in DOMAIN EventTimes |-> 1]
           /\ run_in = [times |-> EventTimes, energies |-> en, column |-> col,
                        emin |-> emin, emax |-> emax, freq |-> 1, nbin |-> nbin,
                        smooth_window |-> sw, norm |-> nrm]
    /\ good(run_in) # {}
    /\ run_out = None
    /\ rpc = "start"

\* run_folding up to the savefig.
RunFolding ==
    /\ rpc = "start"
    /\ ~savgol_rejects(window_length(run_in))
    /\ run_out' = [profile |-> folded_profile(run_in),
                   window  |-> window_length(run_in),
                   hist2d  |-> normalized_hist2d(run_in)]
    /\ rpc' = "done"
    /\ UNCHANGED <<guiVars, pars, adjusted, pc, fitVars, run_in>>

\* run_folding leaving at line 194 with the smoother's ValueError.
RunFoldingRaises ==
    /\ rpc = "start"
    /\ savgol_rejects(window_length(run_in))
    /\ run_out' = [profile |-> folded_profile(run_in),
                   window  |-> window_length(run_in),
                   hist2d  |-> None]
    /\ rpc' = "raised"
    /\ UNCHANGED <<guiVars, pars, adjusted, pc, fitVars, run_in>>

NextRun == RunFolding \/ RunFoldingRaises

RunSpec == InitRun /\ [][NextRun]_vars

\* ------------------------------------------------------------- properties
\* The step just taken is the callback `name`.
Did(name) == last' = name /\ nops' = nops + 1

Window == mode \in {"spin", "binary"}
Ephemeris == <<freq, fdot, fddot, pepoch>>
Orbit == <<orbital_period, asini, t0>>
Phaseograms == <<unnorm_phaseogr, phaseogr>>
Ranges == [i \in Sliders |-> <<sliders[i].valmin, sliders[i].valmax>>]
ResetValues == [i \in Sliders |-> sliders[i].valinit]
Values == [i \in Sliders |-> sliders[i].val]

\* C1: in spin mode, when recalculate() has completed every slider delta
\* returned by _read_sliders is zero, whatever drags, zooms and resets came
\* before it.
C1_DeltasZeroAfterRecalculate ==
    (mode = "spin" /\ last = "recalculate")
        => _read_sliders(sliders, order_of_mag) = <<0, 0, 0>>

\* d = v * 10 ** k, for k of either sign.
IsTimesPow10(d, v, k) ==
    IF k >= 0 THEN d = v * 10 ^ k ELSE d * 10 ^ (0 - k) = v

\* C2: in spin mode recalculate() commits new = old - delta for freq, fdot
\* and fddot, delta being the slider value times ten to the slider's order of
\* magnitude, and leaves pepoch alone; the committed frequency is always the
\* initial frequency minus the sum of the deltas present at each recalculate().
C2_RecalculateCommits ==
    /\ [][(mode = "spin" /\ Did("recalculate")) =>
            /\ \A i \in Sliders :
                IsTimesPow10(<<freq - freq', fdot - fdot', fddot - fddot'>>[i],
                             sliders[i].val, order_of_mag[i])
            /\ pepoch' = pepoch]_vars
    /\ [](mode = "spin" => freq = freq0 - committed)

\* C2 witness: a recalculate() that committed non-zero frequency and fdot deltas.
C2_Witness ==
    /\ mode = "spin" /\ last = "recalculate"
    /\ committed # 0 /\ freq = freq0 - committed /\ fdot # 0

\* C3: toa() hands the TOA routine the frequencies written as F0, F1, F2 in
\* the exported parameter file, the committed ephemeris, also when the
\* sliders hold deltas that were not recalculated.
C3_ToaUsesCommittedEphemeris ==
    (mode = "spin" /\ last = "toa") =>
        /\ toa_call.freqs = << ParValue(par_file, "F0")[1],
                               ParValue(par_file, "F1")[1],
                               ParValue(par_file, "F2")[1] >>
        /\ toa_call.freqs = <<freq, fdot, fddot>>

\* C4: update(val) only repositions the overlay lines: the committed
\* ephemeris and orbit, both stored phaseograms and every slider's range and
\* reset value are as before.
C4_UpdateIsViewRefresh ==
    [][Did("update") =>
        /\ Ephemeris' = Ephemeris
        /\ Orbit' = Orbit
        /\ Phaseograms' = Phaseograms
        /\ Ranges' = Ranges
        /\ ResetValues' = ResetValues]_vars

\* C4 witness: an update() that drew the delay lines of a moved slider.
C4_Witness ==
    /\ Window /\ last = "update" /\ lines.delay
    /\ \E i \in Sliders : sliders[i].val # sliders[i].valinit

\* C5: reset() puts every slider back to its last committed state: delta
\* zero in spin mode, the committed orbital_period, asini, t0 in orbital mode.
C5_ResetRestoresCommitted ==
    (Window /\ last = "reset") =>
        /\ mode = "spin" => Values = [i \in Sliders |-> 0]
        /\ mode = "binary" =>
               Values = [i \in Sliders |->
                            <<Get(orbital_period), asini, Get(t0)>>[i]]

\* C6: reset() leaves the committed ephemeris and orbit, both stored
\* phaseograms and every slider's [min, max] range as they were, in
\* particular as the recalculate() before it left them.
C6_ResetKeepsCommitted ==
    [][Did("reset") =>
        /\ Ephemeris' = Ephemeris
        /\ Orbit' = Orbit
        /\ Phaseograms' = Phaseograms
        /\ Ranges' = Ranges]_vars

\* C6 witness: a reset() right after a recalculate() that moved the ephemeris.
C6_Witness ==
    /\ Window /\ prev = "recalculate" /\ last = "reset"
    /\ (freq # freq0 \/ asini # 0)

\* No hard bound takes effect on a zoom of slider s to [lo, hi].
NoHardBoundEffect(s, lo, hi) ==
    /\ s.hardvalmin # None => Get(s.hardvalmin) <= lo
    /\ s.hardvalmax # None => Get(s.hardvalmax) >= hi

\* C7: on every slider on which no hard bound takes effect, zoom_in() sets
\* the range to [v - R/4, v + R/4] and zoom_out() sets it to [v - R, v + R];
\* both leave the slider's value v and the committed ephemeris unchanged.
C7_ZoomRanges ==
    [][/\ Did("zoom_in") =>
            /\ Ephemeris' = Ephemeris
            /\ \A i \in Sliders :
                LET v == sliders[i].val
                    q == (sliders[i].valmax - sliders[i].valmin) \div 4
                IN  NoHardBoundEffect(sliders[i], v - q, v + q) =>
                        /\ sliders'[i].valmin = v - q
                        /\ sliders'[i].valmax = v + q
                        /\ sliders'[i].val = v
       /\ Did("zoom_out") =>
            /\ Ephemeris' = Ephemeris
            /\ \A i \in Sliders :
                LET v == sliders[i].val
                    r == sliders[i].valmax - sliders[i].valmin
                IN  NoHardBoundEffect(sliders[i], v - r, v + r) =>
                        /\ sliders'[i].valmin = v - r
                        /\ sliders'[i].valmax = v + r
                        /\ sliders'[i].val = v]_vars

\* The hard bounds the sliders are built with.
BuiltHardMin ==
    IF mode = "spin" THEN <<Some(0), None, None>> ELSE <<Some(0), Some(0), Some(0)>>

\* C8: right after zoom_in() or zoom_out() every slider with a hard minimum
\* has valmin >= hardvalmin and every slider with a hard maximum has
\* valmax <= hardvalmax, and the sliders keep the hard bounds they were built
\* with.
C8_ZoomClipsToHardBounds ==
    Window =>
        /\ \A i \in Sliders :
            /\ sliders[i].hardvalmin = BuiltHardMin[i]
            /\ sliders[i].hardvalmax = None
        /\ last \in {"zoom_in", "zoom_out"} =>
            \A i \in Sliders :
                /\ sliders[i].hardvalmin # None =>
                       sliders[i].valmin >= Get(sliders[i].hardvalmin)
                /\ sliders[i].hardvalmax # None =>
                       sliders[i].valmax <= Get(sliders[i].hardvalmax)

\* C8 witness: a zoom whose lower end was cut at the hard minimum.
C8_Witness ==
    /\ Window /\ last \in {"zoom_in", "zoom_out"}
    /\ \E i \in Sliders :
        /\ sliders[i].hardvalmin # None
        /\ sliders[i].valmin = Get(sliders[i].hardvalmin)
        /\ sliders[i].val - sliders[i].valmin < sliders[i].valmax - sliders[i].val

\* C9: in both modes, when recalculate() returns both stored phaseograms are
\* computed from the newly committed parameters and the displayed profile and
\* its Z^2 label are those of the new unnormalized phaseogram.  (Stated for
\* the states whose committed period is not zero, where the delay is defined.)
C9_RecalculateRegenerates ==
    (Window /\ last = "recalculate" /\ orbital_period # Some(0)) =>
        LET times == corrected_times(ev_times(tobs),
                        IF mode = "spin" THEN None
                        ELSE <<asini, Get(t0), Get(orbital_period)>>)
        IN  /\ unnorm_phaseogr =
                normalized_phaseogram("None", times, freq, fdot, fddot, Some(pepoch))
            /\ phaseogr =
                normalized_phaseogram(norm, times, freq, fdot, fddot, Some(pepoch))
            /\ profile = SumOverTime(unnorm_phaseogr)
            /\ proftext = get_z2_label(SumOverTime(unnorm_phaseogr))

\* C10: adjust_amp_phase returns a non-negative amplitude and a phase in
\* the interval (-1, 1].
C10_AmplitudeAndPhaseRange ==
    pc = "done" =>
        /\ adjusted[1] >= 0
        /\ 0 - PhUnit < adjusted[2]
        /\ adjusted[2] <= PhUnit

\* C10 witness: a negative amplitude with a phase above one turn, adjusted.
C10_Witness ==
    /\ pc = "done" /\ pars[1] < 0 /\ pars[2] > PhUnit
    /\ adjusted[1] = 0 - pars[1]

\* C11: adjust_amp_phase gives the phase between 0 and 1: the returned phase
\* p satisfies 0 <= p <= 1 for every input pair.
C11_PhaseInUnitInterval ==
    pc = "done" => (0 <= adjusted[2] /\ adjusted[2] <= PhUnit)

\* C12: for each of the two pairs that fit_profile_with_sinusoids hands to
\* adjust_amp_phase, the harmonic built from the pair (the first from A1, phi1,
\* the second from A2, phi2) takes the same value at every x before and after
\* the adjustment, negative amplitudes included.
C12_EquivalentCosine ==
    pc = "done" =>
        /\ first_harm(adjusted) = first_harm(pars)
        /\ second_harm(adjusted) = second_harm(pars)

\* C13: adjust_amp_phase applied to its own result returns that result.
C13_Idempotent ==
    pc = "done" => adjust_amp_phase(adjusted) = adjusted
C13_Witness ==
    pc = "done" /\ pars[1] < 0 /\ adjusted # pars /\ pars[2] > PhUnit

\* C14: the loop of fit_profile_with_sinusoids runs exactly 10 fits; their
\* initial guesses differ only in phi1, which takes the values 0, 0.1, ...,
\* 0.9, while the baseline (if present), A1 = max - mean, A2 = A1 / 2 and
\* phi2 = 0 are the same in all of them.
C14_SeedsVaryPhi1 ==
    fpc = "returned" =>
        LET k == startidx(fit_in)
        IN  /\ Len(starts) = NumSeeds
            /\ \A i \in 1..Len(starts) :
                  /\ fit_in.baseline => starts[i][1] = fit_in.mean
                  /\ starts[i][1 + k] = fit_in.amp
                  /\ starts[i][2 + k] = phase_seed(i - 1)
                  /\ starts[i][3 + k] = fit_in.amp \div 2
                  /\ starts[i][4 + k] = 0

\* C15: fit_profile_with_sinusoids returns the parameters, success flag and
\* reduced chi-square of one and the same candidate, the one with the lowest
\* chi-square among the 10, and the earliest of them when several share it.
C15_ReturnsBestCandidate ==
    fpc = "returned" =>
        \E i \in 1..Len(cands) :
            /\ Get(fit_ret) = cands[i]
            /\ \A j \in 1..Len(cands) :
                  ~FloatLess(cands[j].chisq, cands[i].chisq)
            /\ \A j \in 1..(i - 1) : cands[j].chisq # cands[i].chisq

\* C16: when profile_err contains a zero the fit signals an error: it does
\* not return, neither a nan or inf chi-square nor a substituted result.
C16_ZeroErrorSignalled ==
    (fpc # "off" /\ fit_in.err_zero) => fpc # "returned"

RECURSIVE SeqSum(_)
SeqSum(q) == IF q = << >> THEN 0 ELSE q[1] + SeqSum(Tail(q))

\* C17: the counts of the 1D profile built by run_folding add up to the
\* number of events that pass the energy filter, and to the number of input
\* events when no energy filter is given; times 0, 0.5, 1, 1.5 at 1 Hz with
\* nbin = 4 give the profile 2, 0, 2, 0.
C17_EventsConserved ==
    rpc = "done" =>
        /\ SeqSum(run_out.profile) = Cardinality(good(run_in))
        /\ (run_in.emin = None /\ run_in.emax = None)
              => SeqSum(run_out.profile) = Len(run_in.times)
        /\ (run_in.nbin = 4 /\ good(run_in) = DOMAIN run_in.times)
              => run_out.profile = <<2, 0, 2, 0>>

\* C18: the window handed to the smoother is odd and not longer than the
\* profile, for the default window of every nbin >= 1 and for a window given
\* by the caller.
C18_WindowOddAndFits ==
    rpc \in {"done", "raised"} =>
        /\ run_out.window % 2 = 1
        /\ run_out.window <= run_in.nbin

\* C19: for a normalization string that is not a known mode,
\* normalized_phaseogram returns exactly the phaseogram that norm=None
\* returns, gives a warning and raises no error (the window is built and
\* recalculated).
C19_UnknownNormFallsBack ==
    (Window /\ normalized_phaseogram_warns(norm) # {}) =>
        /\ phaseogr = unnorm_phaseogr
        /\ norm \in warnings
C19_Witness ==
    /\ Window /\ norm = "other" /\ last = "recalculate"
    /\ phaseogr = unnorm_phaseogr /\ "other" \in warnings
    /\ freq # freq0

\* C20: with an energy column, norm = none leaves the raw counts, ratios
\* gives the ratios view and to1 the to1 view, and a norm other than ratios
\* and to1 is not treated as to1.
C20_NormModesSelectable ==
    (rpc = "done" /\ run_in.column # "none") =>
        LET v == Get(run_out.hist2d).view
        IN  /\ run_in.norm = "ratios" => v = "ratios"
            /\ run_in.norm = "to1" => v = "to1"
            /\ run_in.norm = "none" => v = "none"
            /\ run_in.norm \notin {"ratios", "to1"} => v # "to1"

\* C21: in orbital mode construction succeeds without orbital_period and
\* t0: an unset t0 becomes pepoch (the first event time when pepoch is unset
\* too) and an unset orbital_period the data span, before the sliders are
\* built from them; afterwards neither is ever unset.
C21_OrbitalDefaults ==
    mode = "binary" =>
        /\ orbital_period # None /\ t0 # None
        /\ nops = 0 =>
              LET ev == ev_times(tobs)
              IN  /\ given.pepoch = None => pepoch = ev[1]
                  /\ given.t0 = None =>
                        (t0 = Some(pepoch) /\ sliders[3].valinit = pepoch)
                  /\ given.orbital_period = None =>
                        /\ orbital_period = Some(ev[Len(ev)] - ev[1])
                        /\ sliders[1].valinit = ev[Len(ev)] - ev[1]
C21_Witness ==
    /\ mode = "binary" /\ nops = 0
    /\ given.orbital_period = None /\ given.t0 = None /\ given.pepoch # None
    /\ t0 = Some(pepoch) /\ pepoch # ev_times(tobs)[1]
    /\ orbital_period = Some(tobs * Res)

\* C22: after any sequence of slider moves, zooms, resets and recalculates
\* every slider has valmin < valmax and valmin <= val <= valmax.
C22_RangesContainValues ==
    Window =>
        \A i \in Sliders :
            /\ sliders[i].valmin < sliders[i].valmax
            /\ sliders[i].valmin <= sliders[i].val
            /\ sliders[i].val <= sliders[i].valmax

\* C23: in orbital mode the committed orbital period is strictly positive in
\* every reachable state.
C23_PeriodPositive ==
    mode = "binary" => (orbital_period # None /\ Get(orbital_period) > 0)

====
